---------------------------- MODULE Spec2Model ----------------------------
(***************************************************************************)
(* Model of the battle engine of sim-core: Battle (battle_legacy/mod.rs)   *)
(* driving FightingShip (battle/fighting_ship.rs) and ShipSnapshot         *)
(* (battle_legacy/ship_snapshot.rs).                                       *)
(*                                                                         *)
(* Conventions.  Rust Vec indices are 0-based; the sequences here are      *)
(* 1-based, so fleet index i of the source is position i+1 here and the    *)
(* flagship (index_in_fleet == 0) is position 1.  f64 quantities are kept  *)
(* as exact integers in units of 1/100 (firepower, armour) and the random  *)
(* draws r in [0,1) are represented by the integer floor(n*r) in 0..n-1    *)
(* that the code derives from them.                                        *)
(***************************************************************************)
EXTENDS Integers, Sequences, FiniteSets, TLC

\* ------------------------------------------------------------------ bounds
\* total number of ships of the two input fleets
MaxShips == 3
\* number of calls of calculate_result on a finished battle
MaxGradings == 2
\* total number of ships of the two fleets handed to the grader alone
MaxGradedShips == 4
\* largest entry HP of the flagship of the flagship scenario
MaxFlagshipHp == 12
MaxPrecap == 240        \* largest firepower before capping in a stand-alone call
MaxSnapshotHp == 12     \* largest small HP / damage of a stand-alone snapshot
MaxCount == 2           \* largest `count` of a simulate call
MaxTrivialHp == 24      \* largest HP of the target of a stand-alone glancing hit
MaxLevelHp == 12        \* largest HP and max HP of a stand-alone damaged_level call

\* ------------------------------------------------------ program constants
U16 == 65536
Cap == 220
FlagshipIndex == 1

\* Range (fleet/status.rs): None < Short < Medium < Long < VeryLong < VeryVeryLong
RangeNone == 0
RangeShort == 1
RangeMedium == 2
RangeLong == 3

\* DamagedLevel (battle/fighting_ship.rs): NoDamage < Minor < Moderate < Heavy < Sunk
NoDamage == 0
Minor == 1
Moderate == 2
Heavy == 3
Sunk == 4

\* BattleDirection
Directions == {"Same", "Against", "TAdvantage", "TDisadvantage"}

\* ------------------------------------------------------------ input ships
\* Ship records carry the derived stats the engine reads through its getters
\* (Ship::max_hp, hp, firepower, armor, torpedo, bombing, range, ship_type_id,
\* has_attack_aircraft).  The stats are small so that hits of 0..5 points meet
\* ships of 3..6 HP; for every firepower/armour pair these ships can produce
\* in a battle the f64 arithmetic of the source and the exact arithmetic of
\* this module give the same damage.
Destroyer ==
    [max_hp |-> 3, hp |-> 3, firepower |-> 0, armor |-> 5, torpedo |-> 0,
     bombing |-> 0, range |-> RangeShort, ship_type_id |-> 2,
     attack_aircraft |-> FALSE]

\* battleship-class (ship_type_id 9), entering the battle damaged
Battleship ==
    [max_hp |-> 6, hp |-> 4, firepower |-> 3, armor |-> 8, torpedo |-> 0,
     bombing |-> 0, range |-> RangeLong, ship_type_id |-> 9,
     attack_aircraft |-> FALSE]

\* carries attack aircraft
Carrier ==
    [max_hp |-> 4, hp |-> 4, firepower |-> 0, armor |-> 2, torpedo |-> 0,
     bombing |-> 0, range |-> RangeMedium, ship_type_id |-> 11,
     attack_aircraft |-> TRUE]

\* enters the battle with 0 HP
Wreck ==
    [max_hp |-> 3, hp |-> 0, firepower |-> 0, armor |-> 5, torpedo |-> 0,
     bombing |-> 0, range |-> RangeLong, ship_type_id |-> 2,
     attack_aircraft |-> FALSE]

Ships == {Destroyer, Battleship, Carrier, Wreck}

\* the ship of the duel scenario: HP 100 of 100, firepower 100, armor 50
Duelist ==
    [max_hp |-> 100, hp |-> 100, firepower |-> 100, armor |-> 50, torpedo |-> 0,
     bombing |-> 0, range |-> RangeShort, ship_type_id |-> 2,
     attack_aircraft |-> FALSE]

\* a lightly armoured ship entering with h HP
Flagship(h) ==
    [max_hp |-> MaxFlagshipHp, hp |-> h, firepower |-> 0, armor |-> 5,
     torpedo |-> 0, bombing |-> 0, range |-> RangeShort, ship_type_id |-> 2,
     attack_aircraft |-> FALSE]

FleetsOf(ships) == UNION {[1..n -> ships] : n \in 0..MaxShips}

\* ------------------------------------------------------------------ state
VARIABLES
    direction,      \* Battle.direction
    friend_fleet,   \* Battle.friend_fleet[i].ship   (immutable stats)
    enemy_fleet,    \* Battle.enemy_fleet[i].ship
    friend_hp,      \* Battle.friend_fleet[i].snapshot.hp
    enemy_hp,       \* Battle.enemy_fleet[i].snapshot.hp
    pc,             \* position of fire_phase: "new","phase1","phase2","done","panic"
    fire_order,     \* the Vec<(bool, usize)> the running fire_phase_helper iterates
    pos,            \* next entry of fire_order to process
    last,           \* the event of the latest step (what the step pushed to logs)
    attacks,        \* per phase, the actors of the fire logs pushed so far
    grades,         \* the values calculate_result returned so far
    report,         \* the BattleReport built from the battle
    logs,           \* Battle.logs
    call,           \* a stand-alone call of a function: arguments and result
    host            \* the state of a simulate call (lib.rs)

vars == <<direction, friend_fleet, enemy_fleet, friend_hp, enemy_hp,
          pc, fire_order, pos, last, attacks, grades, report, logs, call, host>>

\* ---------------------------------------------------------------- helpers
Min(a, b) == IF a < b THEN a ELSE b
Max(a, b) == IF a > b THEN a ELSE b

\* floor(sqrt(n)) for a natural n
Isqrt(n) == CHOOSE k \in 0..n : k * k <= n /\ (k + 1) * (k + 1) > n

\* the values floor(n * r) takes for r = rand::random::<f64>() in [0,1)
Draws(n) == IF n = 0 THEN {0} ELSE 0..(n - 1)

\* fault variant of ShipSnapshot::from: the ship's full HP is taken
SnapshotFrom_max_hp(ship) == ship.max_hp

\* ShipSnapshot::from
SnapshotFrom(ship) == ship.hp

\* FightingShip::is_alive
is_alive(hp) == hp > 0

\* Ship::is_battleship_class
is_battleship_class(ship) == ship.ship_type_id \in {8, 9, 10, 12}

\* fleet.iter().enumerate().filter(|(_, s)| s.is_alive()) : alive positions, ascending
RECURSIVE AliveFrom(_, _)
AliveFrom(hps, i) ==
    IF i > Len(hps) THEN <<>>
    ELSE (IF is_alive(hps[i]) THEN <<i>> ELSE <<>>) \o AliveFrom(hps, i + 1)

AliveIndices(hps) == AliveFrom(hps, 1)


\* ----------------------------------------------------------- turn ordering
\* Vec::sort_by_key(|(_, s)| Reverse(s.range())) : stable, descending range.
\* Insert x behind every element whose range is >= its own.
RECURSIVE InsertByRange(_, _, _)
InsertByRange(fleet, x, sorted) ==
    IF sorted = <<>> THEN <<x>>
    ELSE IF fleet[Head(sorted)].range >= fleet[x].range
         THEN <<Head(sorted)>> \o InsertByRange(fleet, x, Tail(sorted))
         ELSE <<x>> \o sorted

RECURSIVE SortFrom(_, _, _, _)
SortFrom(fleet, idxs, k, sorted) ==
    IF k > Len(idxs) THEN sorted
    ELSE SortFrom(fleet, idxs, k + 1, InsertByRange(fleet, idxs[k], sorted))

SortByRangeDesc(fleet, idxs) == SortFrom(fleet, idxs, 1, <<>>)

\* the while loop of ordered_by_range: (true, first[i]) then (false, second[j])
RECURSIVE Interleave(_, _)
Interleave(first, second) ==
    IF first = <<>> /\ second = <<>> THEN <<>>
    ELSE (IF first # <<>> THEN << <<TRUE, Head(first)>> >> ELSE <<>>)
         \o (IF second # <<>> THEN << <<FALSE, Head(second)>> >> ELSE <<>>)
         \o Interleave(IF first # <<>> THEN Tail(first) ELSE <<>>,
                       IF second # <<>> THEN Tail(second) ELSE <<>>)

\* fleet1.first().unwrap() / fleet2.first().unwrap() on an empty alive list
ordered_by_range_panics(fhp, ehp) ==
    AliveIndices(fhp) = <<>> \/ AliveIndices(ehp) = <<>>

\* Battle::ordered_by_range (defined when it does not panic)
ordered_by_range(ff, ef, fhp, ehp) ==
    LET fleet1 == SortByRangeDesc(ff, AliveIndices(fhp))
        fleet2 == SortByRangeDesc(ef, AliveIndices(ehp))
    IN  IF ff[fleet1[1]].range > ef[fleet2[1]].range
        THEN Interleave(fleet1, fleet2)
        ELSE Interleave(fleet2, fleet1)

\* the for loop of ordered_by_index
RECURSIVE IndexLoop(_, _, _, _)
IndexLoop(friend, enemy, i, length) ==
    IF i > length THEN <<>>
    ELSE (IF i <= Len(friend) THEN << <<TRUE, friend[i]>> >> ELSE <<>>)
         \o (IF i <= Len(enemy) THEN << <<FALSE, enemy[i]>> >> ELSE <<>>)
         \o IndexLoop(friend, enemy, i + 1, length)

\* fault variant of ordered_by_index: the is_alive filter left out
ordered_by_index_unfiltered(fhp, ehp) ==
    LET friend == [i \in DOMAIN fhp |-> i]
        enemy == [i \in DOMAIN ehp |-> i]
    IN  IndexLoop(friend, enemy, 1, Max(Len(friend), Len(enemy)))

\* fault variant of ordered_by_index: the loop run a second time
ordered_by_index_twice(fhp, ehp) ==
    LET friend == AliveIndices(fhp)
        enemy == AliveIndices(ehp)
        once == IndexLoop(friend, enemy, 1, Max(Len(friend), Len(enemy)))
    IN  once \o once

\* Battle::ordered_by_index
ordered_by_index(fhp, ehp) ==
    LET friend == AliveIndices(fhp)
        enemy == AliveIndices(ehp)
    IN  IndexLoop(friend, enemy, 1, Max(Len(friend), Len(enemy)))

\* fault variant of includes_battleship_class: the enemy fleet not looked at
includes_battleship_class_friend_only(ff, ef) ==
    \E i \in DOMAIN ff : is_battleship_class(ff[i])

\* Battle::includes_battleship_class
includes_battleship_class(ff, ef) ==
    \/ \E i \in DOMAIN ff : is_battleship_class(ff[i])
    \/ \E i \in DOMAIN ef : is_battleship_class(ef[i])

\* --------------------------------------------------------------- firepower
\* fault variant of damaged_level: the three comparisons strict
damaged_level_strict(max_hp, now_hp) ==
    IF now_hp = 0 THEN Sunk
    ELSE IF 4 * now_hp < max_hp THEN Heavy
    ELSE IF 2 * now_hp < max_hp THEN Moderate
    ELSE IF 4 * now_hp < 3 * max_hp THEN Minor
    ELSE NoDamage

\* FightingShip::damaged_level : ratio = now_hp / max_hp against 0.25, 0.5, 0.75
damaged_level(max_hp, now_hp) ==
    IF now_hp = 0 THEN Sunk
    ELSE IF 4 * now_hp <= max_hp THEN Heavy
    ELSE IF 2 * now_hp <= max_hp THEN Moderate
    ELSE IF 4 * now_hp <= 3 * max_hp THEN Minor
    ELSE NoDamage

\* DamagedLevel::fp_factor, in tenths
level_fp_factor(level) ==
    CASE level = NoDamage -> 10
      [] level = Minor -> 10
      [] level = Moderate -> 7
      [] level = Heavy -> 4
      [] level = Sunk -> 0

\* BattleDirection::fp_factor, in tenths
direction_fp_factor(d) ==
    CASE d = "Same" -> 10
      [] d = "Against" -> 8
      [] d = "TAdvantage" -> 12
      [] d = "TDisadvantage" -> 6

\* FightingShip::basic_fp
basic_fp(ship) ==
    IF ship.attack_aircraft
    THEN ((ship.firepower + ship.torpedo + ship.bombing) * 3) \div 2 + 55
    ELSE ship.firepower + 5

\* FightingShip::fp_precap_correction, in hundredths
fp_precap_correction(basic, d, level) ==
    basic * direction_fp_factor(d) * level_fp_factor(level)

\* fault variant: a hard cap, the part above the cap is lost
fp_capping_hard(fp100, cap) ==
    Min(fp100, cap * 100)

\* FightingShip::fp_capping, argument and result in hundredths:
\* firepower.min(cap) + floor(sqrt(max(firepower - cap, 0)))
fp_capping(fp100, cap) ==
    Min(fp100, cap * 100) + 100 * Isqrt(Max(fp100 - cap * 100, 0) \div 100)

\* FightingShip::fp_postcap_correction
fp_postcap_correction(fp100) == fp100

\* fault variant of calculate_firepower: the damaged level of the ship as it
\* entered the battle
calculate_firepower_at_entry(ship, now_hp, d) ==
    fp_postcap_correction(
        fp_capping(
            fp_precap_correction(basic_fp(ship), d,
                                 damaged_level(ship.max_hp, ship.hp)),
            Cap))

\* FightingShip::calculate_firepower, in hundredths
calculate_firepower(ship, now_hp, d) ==
    fp_postcap_correction(
        fp_capping(
            fp_precap_correction(basic_fp(ship), d,
                                 damaged_level(ship.max_hp, now_hp)),
            Cap))

\* fault variant of calculate_armor: the two coefficients exchanged
calculate_armor_swapped(armor, k) == 60 * armor + 70 * k

\* Battle::calculate_armor, in hundredths; k = floor(armor * r)
calculate_armor(armor, k) == 70 * armor + 60 * k

\* fire_phase_helper: f64::floor(firepower - armor)
raw_damage(fp100, armor100) == (fp100 - armor100) \div 100

\* fault variant: the coefficients ten times as large
trivial_damage_tenfold(hp_now, k) == (60 * hp_now + 80 * k) \div 100

\* fault variant: the first term floored on its own
trivial_damage_floored_first(hp_now, k) ==
    (((6 * hp_now) \div 100) * 100 + 8 * k) \div 100

\* fire_phase_helper: hp_now * 0.06 + floor(hp_now * r) * 0.08, cast `as u16`
\* (the f64 result has this integer part for every hp_now below 60)
trivial_damage(hp_now, k) == (6 * hp_now + 8 * k) \div 100

\* `damage as u16` for a non-negative whole damage (saturating cast)
as_u16(x) == IF x < 0 THEN 0 ELSE Min(x, U16 - 1)

\* ------------------------------------------------------------ apply damage
\* fault variant of ShipSnapshot::apply_damage: wrapping u16 subtraction
snapshot_apply_damage_wrapping(hp, amount) == (hp - amount) % U16

\* ShipSnapshot::apply_damage : hp.saturating_sub(amount)
snapshot_apply_damage(hp, amount) == IF amount >= hp THEN 0 ELSE hp - amount

\* fault variant of the flagship branch: the two coefficients exchanged
flagship_protect_swapped(hp, k) == (3 * hp + 5 * k) \div 10

\* fault variant of the flagship branch: the sum rounded up, not truncated
flagship_protect_rounded_up(hp, k) == (5 * hp + 3 * k + 9) \div 10

\* the flagship branch of FightingShip::apply_damage, k = floor(hp * r):
\* floor(hp * 0.5 + floor(hp * r) * 0.3) as u16
flagship_protect(hp, k) == (5 * hp + 3 * k) \div 10

\* fault variant of FightingShip::apply_damage: no anti-sink replacement
protected_damage_unguarded(is_friend, index_in_fleet, hp, diff, k) == diff

\* fault variant of FightingShip::apply_damage: the is_friend test left out
protected_damage_either_side(is_friend, index_in_fleet, hp, diff, k) ==
    IF diff >= hp
    THEN IF index_in_fleet = FlagshipIndex
         THEN flagship_protect(hp, k)
         ELSE hp - 1
    ELSE diff

\* fault variant of FightingShip::apply_damage: the flagship's replacement
\* used for every friend ship
protected_damage_flagship_rule_only(is_friend, index_in_fleet, hp, diff, k) ==
    IF is_friend /\ diff >= hp THEN flagship_protect(hp, k) ELSE diff

\* FightingShip::apply_damage : the damage finally handed to the snapshot
protected_damage(is_friend, index_in_fleet, hp, diff, k) ==
    IF is_friend /\ diff >= hp
    THEN IF index_in_fleet = FlagshipIndex
         THEN flagship_protect(hp, k)
         ELSE hp - 1
    ELSE diff


\* fault variant of Battle::apply_damage: the hit lands in the actor's fleet
Battle_apply_damage_own_side(target_is_friend, target_index, damage, fhp, ehp, k) ==
    LET hps == IF target_is_friend THEN ehp ELSE fhp
        new == IF target_index \in DOMAIN hps
               THEN [hps EXCEPT ![target_index] =
                        snapshot_apply_damage(@,
                            protected_damage(~target_is_friend, target_index,
                                             @, damage, k))]
               ELSE hps
    IN  IF target_is_friend THEN <<fhp, new>> ELSE <<new, ehp>>

\* fault variant of Battle::apply_damage: the snapshot of a ship that was
\* sunk by the hit is taken out of the list
Battle_apply_damage_removing_sunk(target_is_friend, target_index, damage, fhp, ehp, k) ==
    LET hps == IF target_is_friend THEN fhp ELSE ehp
        new == IF target_index \in DOMAIN hps
               THEN [hps EXCEPT ![target_index] =
                        snapshot_apply_damage(@,
                            protected_damage(target_is_friend, target_index,
                                             @, damage, k))]
               ELSE hps
        kept == IF target_index \in DOMAIN hps /\ new[target_index] = 0
                THEN SelectSeq(new, LAMBDA h : h > 0)
                ELSE new
    IN  IF target_is_friend THEN <<kept, ehp>> ELSE <<fhp, kept>>

\* Battle::apply_damage : the pair <<friend_hp, enemy_hp>> after the hit.
\* target_fleet.get_mut(target_index) is None for an index out of range.
Battle_apply_damage(target_is_friend, target_index, damage, fhp, ehp, k) ==
    LET hps == IF target_is_friend THEN fhp ELSE ehp
        new == IF target_index \in DOMAIN hps
               THEN [hps EXCEPT ![target_index] =
                        snapshot_apply_damage(@,
                            protected_damage(target_is_friend, target_index,
                                             @, damage, k))]
               ELSE hps
    IN  IF target_is_friend THEN <<new, ehp>> ELSE <<fhp, new>>

\* ------------------------------------------------------- actor and target
\* fault variant of Battle::get_actor: the is_alive test left out
get_actor_no_alive_test(fleet, hps, index_in_fleet) ==
    IF index_in_fleet \notin DOMAIN fleet THEN "panic"
    ELSE IF /\ fleet[index_in_fleet].attack_aircraft
            /\ damaged_level(fleet[index_in_fleet].max_hp,
                             hps[index_in_fleet]) >= Moderate
         THEN "deck"
    ELSE "ok"

\* fault variant of Battle::get_actor: the test of the flight deck left out
get_actor_no_deck_test(fleet, hps, index_in_fleet) ==
    IF index_in_fleet \notin DOMAIN fleet THEN "panic"
    ELSE IF ~is_alive(hps[index_in_fleet]) THEN "sunk"
    ELSE "ok"

\* Battle::get_actor : "panic" (index out of bounds), "sunk" and "deck" (the
\* two Err returns) or "ok"
get_actor(fleet, hps, index_in_fleet) ==
    IF index_in_fleet \notin DOMAIN fleet THEN "panic"
    ELSE IF ~is_alive(hps[index_in_fleet]) THEN "sunk"
    ELSE IF /\ fleet[index_in_fleet].attack_aircraft
            /\ damaged_level(fleet[index_in_fleet].max_hp,
                             hps[index_in_fleet]) >= Moderate
         THEN "deck"
    ELSE "ok"

\* fault variant of Battle::choose_random_alive: any ship of the fleet
choose_random_any(hps) == DOMAIN hps

\* Battle::choose_random_alive : the positions it can return ({} models None)
choose_random_alive(hps) ==
    LET alive == AliveIndices(hps)
    IN  {alive[n] : n \in 1..Len(alive)}

\* Battle::get_target : candidates on the side opposite to the actor
get_target(actor_is_friend, fhp, ehp) ==
    choose_random_alive(IF actor_is_friend THEN ehp ELSE fhp)

\* ----------------------------------------------------------------- grading
RECURSIVE SumFrom(_, _)
SumFrom(xs, i) == IF i > Len(xs) THEN 0 ELSE xs[i] + SumFrom(xs, i + 1)

\* iter().map(..).sum()
Sum(xs) == SumFrom(xs, 1)

\* iter().filter(|fs| !fs.is_alive()).count()
SunkCount(hps) == Len(hps) - Len(AliveIndices(hps))

\* hp_before - hp_now on u16: the difference modulo 2^16 (an optimised
\* build wraps; a build with overflow checks stops where this differs from
\* the difference, i.e. where hp_now > hp_before)
u16_sub(hp_before, hp_now) == (hp_before - hp_now) % U16

\* iter().map(|fs| (fs.hp_before() - fs.hp_now()) as u32).sum()
TotalDamage(fleet, hps) ==
    Sum([i \in DOMAIN fleet |-> u16_sub(fleet[i].hp, hps[i])])

\* iter().map(|fs| fs.ship().hp() as u32).sum()
TotalInitialHp(fleet) == Sum([i \in DOMAIN fleet |-> fleet[i].hp])

\* fault variant of the gauge ratio test: equality passes, as if the
\* denominator had no 1E-10 added
gauge_ratio_ge_inclusive(damage_to_enemy, enemy_initial_hp, damage_to_friend, friend_initial_hp, num, den) ==
    /\ enemy_initial_hp # 0
    /\ friend_initial_hp # 0
    /\ den * damage_to_enemy * friend_initial_hp
         >= num * damage_to_friend * enemy_initial_hp

\* gauge_ratio >= num / den, for
\*   friend_gauge = damage_to_enemy / enemy_initial_hp * 100.0
\*   enemy_gauge  = damage_to_friend / friend_initial_hp * 100.0
\*   gauge_ratio  = friend_gauge / (enemy_gauge + 1E-10).
\* A total initial HP of 0 makes its gauge 0.0 / 0.0 = NaN, and every comparison
\* with NaN is false.  Otherwise the 1E-10 of the denominator makes the
\* quotient fall short of num/den when friend_gauge = num/den * enemy_gauge
\* and changes nothing else (the gauges of fleets of this size differ from a
\* threshold by far more than 1E-10 or not at all), so the test is the strict
\* friend_gauge > num/den * enemy_gauge, cross-multiplied.
gauge_ratio_ge(damage_to_enemy, enemy_initial_hp, damage_to_friend, friend_initial_hp, num, den) ==
    /\ enemy_initial_hp # 0
    /\ friend_initial_hp # 0
    /\ den * damage_to_enemy * friend_initial_hp
         > num * damage_to_friend * enemy_initial_hp

\* friend_gauge >= 50.0
friend_gauge_ge_50(damage_to_enemy, enemy_initial_hp) ==
    enemy_initial_hp # 0 /\ 2 * damage_to_enemy >= enemy_initial_hp

\* sunk as f64 / total as f64 >= num / den  (0.0 / 0.0 is NaN: false)
sunk_ratio_ge(sunk, total, num, den) ==
    total # 0 /\ den * sunk >= num * total

Grades == {"SS", "S", "A", "B", "C", "D", "E"}

\* fault variant of Battle::calculate_result: rank A asks for more than two
\* thirds of the enemy ships sunk
calculate_result_strict_a(ff, ef, fhp, ehp) ==
    LET friend_sunk == SunkCount(fhp)
        enemy_sunk == SunkCount(ehp)
        alive_enemy_ships == Len(AliveIndices(ehp))
        enemy_flagship_sunk == ehp # <<>> /\ ~is_alive(ehp[1])
        to_friend == TotalDamage(ff, fhp)
        to_enemy == TotalDamage(ef, ehp)
        f_init == TotalInitialHp(ff)
        e_init == TotalInitialHp(ef)
        ratio_ge(n, d) == gauge_ratio_ge(to_enemy, e_init, to_friend, f_init, n, d)
    IN  IF friend_sunk > 0
        THEN IF ratio_ge(5, 2) \/ (enemy_flagship_sunk /\ enemy_sunk > friend_sunk)
             THEN "B"
             ELSE IF enemy_flagship_sunk \/ ratio_ge(1, 1) THEN "C"
             ELSE IF sunk_ratio_ge(friend_sunk, Len(fhp), 1, 2) THEN "E"
             ELSE "D"
        ELSE IF alive_enemy_ships = 0
        THEN IF to_friend = 0 THEN "SS" ELSE "S"
        ELSE IF sunk_ratio_ge(enemy_sunk, Len(ehp), 2, 3) /\ 3 * enemy_sunk # 2 * Len(ehp)
        THEN "A"
        ELSE IF enemy_flagship_sunk \/ ratio_ge(5, 2) THEN "B"
        ELSE IF ratio_ge(1, 1) \/ friend_gauge_ge_50(to_enemy, e_init) THEN "C"
        ELSE "D"

\* Battle::calculate_result (always Some(grade))
calculate_result(ff, ef, fhp, ehp) ==
    LET friend_sunk == SunkCount(fhp)
        enemy_sunk == SunkCount(ehp)
        alive_enemy_ships == Len(AliveIndices(ehp))
        enemy_flagship_sunk == ehp # <<>> /\ ~is_alive(ehp[1])
        to_friend == TotalDamage(ff, fhp)
        to_enemy == TotalDamage(ef, ehp)
        f_init == TotalInitialHp(ff)
        e_init == TotalInitialHp(ef)
        ratio_ge(n, d) == gauge_ratio_ge(to_enemy, e_init, to_friend, f_init, n, d)
    IN  IF friend_sunk > 0
        THEN IF ratio_ge(5, 2) \/ (enemy_flagship_sunk /\ enemy_sunk > friend_sunk)
             THEN "B"
             ELSE IF enemy_flagship_sunk \/ ratio_ge(1, 1) THEN "C"
             ELSE IF sunk_ratio_ge(friend_sunk, Len(fhp), 1, 2) THEN "E"
             ELSE "D"
        ELSE IF alive_enemy_ships = 0
        THEN IF to_friend = 0 THEN "SS" ELSE "S"
        ELSE IF sunk_ratio_ge(enemy_sunk, Len(ehp), 2, 3) THEN "A"
        ELSE IF enemy_flagship_sunk \/ ratio_ge(5, 2) THEN "B"
        ELSE IF ratio_ge(1, 1) \/ friend_gauge_ge_50(to_enemy, e_init) THEN "C"
        ELSE "D"

\* ------------------------------------------------------------------ events
NoEvent ==
    [kind |-> "none", actor_is_friend |-> FALSE, actor_index |-> 0,
     target_is_friend |-> FALSE, target_index |-> 0, hp_now |-> 0,
     damage |-> 0, firepower |-> 0]

SkipEvent(is_friend, index, reason) ==
    [kind |-> reason, actor_is_friend |-> is_friend, actor_index |-> index,
     target_is_friend |-> FALSE, target_index |-> 0, hp_now |-> 0,
     damage |-> 0, firepower |-> 0]

\* target_is_friend, target and damage are the arguments handed to
\* Battle::apply_damage, hp_now the target's snapshot when it was selected,
\* firepower the result of calculate_firepower for the actor (hundredths)
AttackEvent(is_friend, index, target_is_friend, target, hp_now, damage, firepower) ==
    [kind |-> "attack", actor_is_friend |-> is_friend, actor_index |-> index,
     target_is_friend |-> target_is_friend, target_index |-> target,
     hp_now |-> hp_now, damage |-> damage, firepower |-> firepower]

SkipKinds == {"sunk", "deck", "no_target"}

NoAttacks == << <<>>, <<>> >>

\* a line of the logs, a String in the code: what kind of line it is
LogLine(text) == text

\* Battle::new: "=== Battle start ===" and "-- Battle direction: .. --"
NewLogs(d) == <<LogLine("start"), LogLine(d)>>

\* no stand-alone call made
NoCall == [fn |-> "none", args |-> <<>>, ret |-> <<>>]

\* no simulate call running
NoHost == [pc |-> "off"]

NoReport ==
    [result |-> "none", friend_fleet_results |-> <<>>,
     enemy_fleet_results |-> <<>>]

\* ------------------------------------------------------------------- Init
\* the state Battle::new returns
Init ==
    /\ direction \in Directions
    /\ friend_fleet \in FleetsOf(Ships)
    /\ enemy_fleet \in FleetsOf(Ships)
    /\ Len(friend_fleet) + Len(enemy_fleet) <= MaxShips
    /\ friend_hp = [i \in DOMAIN friend_fleet |-> SnapshotFrom(friend_fleet[i])]
    /\ enemy_hp = [i \in DOMAIN enemy_fleet |-> SnapshotFrom(enemy_fleet[i])]
    /\ pc = "new"
    /\ fire_order = <<>>
    /\ pos = 1
    /\ last = NoEvent
    /\ attacks = NoAttacks
    /\ grades = <<>>
    /\ report = NoReport
    /\ logs = NewLogs(direction)
    /\ call = NoCall
    /\ host = NoHost

\* ---------------------------------------------------------------- actions
\* fire_phase: let fire_order = self.ordered_by_range()
FirePhaseBegin ==
    /\ pc = "new"
    /\ IF ordered_by_range_panics(friend_hp, enemy_hp)
       THEN /\ pc' = "panic"
            /\ UNCHANGED <<fire_order, pos>>
       ELSE /\ pc' = "phase1"
            /\ fire_order' = ordered_by_range(friend_fleet, enemy_fleet,
                                              friend_hp, enemy_hp)
            /\ pos' = 1
    /\ last' = NoEvent
    /\ UNCHANGED <<direction, friend_fleet, enemy_fleet, friend_hp, enemy_hp,
                   attacks, grades, report, logs, call, host>>

\* the attack of one loop iteration of fire_phase_helper, actor and target found
Attack(actor_is_friend, actor_index, target_index) ==
    LET actor == IF actor_is_friend THEN friend_fleet[actor_index]
                 ELSE enemy_fleet[actor_index]
        actor_hp == IF actor_is_friend THEN friend_hp[actor_index]
                    ELSE enemy_hp[actor_index]
        target == IF actor_is_friend THEN enemy_fleet[target_index]
                  ELSE friend_fleet[target_index]
        hp_now == IF actor_is_friend THEN enemy_hp[target_index]
                  ELSE friend_hp[target_index]
        firepower == calculate_firepower(actor, actor_hp, direction)
    IN  \E ka \in Draws(target.armor) :
          LET raw == raw_damage(firepower, calculate_armor(target.armor, ka))
          IN  \E kt \in (IF raw > 0 THEN {0} ELSE Draws(hp_now)) :
                LET damage == IF raw > 0 THEN as_u16(raw)
                              ELSE trivial_damage(hp_now, kt)
                    drawn == /\ ~actor_is_friend
                             /\ damage >= hp_now
                             /\ target_index = FlagshipIndex
                IN  \E kp \in (IF drawn THEN Draws(hp_now) ELSE {0}) :
                      LET after == Battle_apply_damage(~actor_is_friend,
                                       target_index, damage,
                                       friend_hp, enemy_hp, kp)
                      IN  /\ friend_hp' = after[1]
                          /\ enemy_hp' = after[2]
                          /\ last' = AttackEvent(actor_is_friend, actor_index,
                                                 ~actor_is_friend,
                                                 target_index, hp_now, damage,
                                                 firepower)
                          /\ attacks' =
                               [attacks EXCEPT ![IF pc = "phase1" THEN 1 ELSE 2] =
                                   Append(@, <<actor_is_friend, actor_index>>)]

\* one iteration of the for loop of fire_phase_helper
FireTurn ==
    /\ pc \in {"phase1", "phase2"}
    /\ pos <= Len(fire_order)
    /\ LET actor_is_friend == fire_order[pos][1]
           actor_index == fire_order[pos][2]
           who == get_actor(IF actor_is_friend THEN friend_fleet ELSE enemy_fleet,
                            IF actor_is_friend THEN friend_hp ELSE enemy_hp,
                            actor_index)
           targets == get_target(actor_is_friend, friend_hp, enemy_hp)
       IN  IF who = "panic"
           THEN /\ pc' = "panic"
                /\ last' = SkipEvent(actor_is_friend, actor_index, "panic")
                /\ UNCHANGED <<friend_hp, enemy_hp, pos, attacks>>
           ELSE /\ pc' = pc
                /\ pos' = pos + 1
                /\ IF who # "ok"
                   THEN /\ last' = SkipEvent(actor_is_friend, actor_index, who)
                        /\ UNCHANGED <<friend_hp, enemy_hp, attacks>>
                   ELSE IF targets = {}
                   THEN /\ last' = SkipEvent(actor_is_friend, actor_index,
                                             "no_target")
                        /\ UNCHANGED <<friend_hp, enemy_hp, attacks>>
                   ELSE \E t \in targets :
                            Attack(actor_is_friend, actor_index, t)
    /\ logs' = IF pc' = "panic" THEN logs ELSE Append(logs, LogLine(last'.kind))
    /\ UNCHANGED <<direction, friend_fleet, enemy_fleet, fire_order,
                   grades, report, call, host>>

\* fire_phase after a fire_phase_helper call returns: the battleship gate
FirePhaseNext ==
    /\ pc \in {"phase1", "phase2"}
    /\ pos > Len(fire_order)
    /\ IF pc = "phase1" /\ includes_battleship_class(friend_fleet, enemy_fleet)
       THEN /\ pc' = "phase2"
            /\ fire_order' = ordered_by_index(friend_hp, enemy_hp)
            /\ pos' = 1
       ELSE /\ pc' = "done"
            /\ UNCHANGED <<fire_order, pos>>
    /\ last' = NoEvent
    /\ UNCHANGED <<direction, friend_fleet, enemy_fleet, friend_hp, enemy_hp,
                   attacks, grades, report, logs, call, host>>

\* fault variant of calculate_result: the snapshots are moved out of the
\* fleets (&mut self), leaving default snapshots behind
CalculateResult_taking ==
    /\ pc = "done"
    /\ Len(grades) < MaxGradings
    /\ grades' = Append(grades, calculate_result(friend_fleet, enemy_fleet,
                                                 friend_hp, enemy_hp))
    /\ friend_hp' = [i \in DOMAIN friend_hp |-> 0]
    /\ enemy_hp' = [i \in DOMAIN enemy_hp |-> 0]
    /\ UNCHANGED <<direction, friend_fleet, enemy_fleet,
                   pc, fire_order, pos, last, attacks, report, logs, call, host>>

\* a call of Battle::calculate_result on the finished battle
CalculateResult ==
    /\ pc = "done"
    /\ Len(grades) < MaxGradings
    /\ grades' = Append(grades, calculate_result(friend_fleet, enemy_fleet,
                                                 friend_hp, enemy_hp))
    /\ UNCHANGED <<direction, friend_fleet, enemy_fleet, friend_hp, enemy_hp,
                   pc, fire_order, pos, last, attacks, report, logs, call, host>>

\* fault variant of BattleReport::from: the two result lists exchanged
Report_sides_exchanged ==
    /\ pc = "done"
    /\ pc' = "reported"
    /\ report' = [result |-> calculate_result(friend_fleet, enemy_fleet,
                                              friend_hp, enemy_hp),
                  friend_fleet_results |-> enemy_hp,
                  enemy_fleet_results |-> friend_hp]
    /\ UNCHANGED <<direction, friend_fleet, enemy_fleet, friend_hp, enemy_hp,
                   fire_order, pos, last, attacks, grades, logs, call, host>>

\* BattleReport::from(battle): the grade and the snapshots of both fleets
Report ==
    /\ pc = "done"
    /\ pc' = "reported"
    /\ report' = [result |-> calculate_result(friend_fleet, enemy_fleet,
                                              friend_hp, enemy_hp),
                  friend_fleet_results |-> friend_hp,
                  enemy_fleet_results |-> enemy_hp]
    /\ UNCHANGED <<direction, friend_fleet, enemy_fleet, friend_hp, enemy_hp,
                   fire_order, pos, last, attacks, grades, logs, call, host>>

Next == FirePhaseBegin \/ FireTurn \/ FirePhaseNext \/ CalculateResult \/ Report

Spec == Init /\ [][Next]_vars

\* ------------------------------------------------------- the grader alone
\* calculate_result and the report on any final snapshots: fleets of ships
\* that entered with 3 or with 0 HP, every snapshot anywhere in 0 .. entry HP
GradedShips == {Destroyer, Wreck}

GraderInit ==
    /\ direction = "Same"
    /\ friend_fleet \in UNION {[1..n -> GradedShips] : n \in 0..MaxGradedShips}
    /\ enemy_fleet \in UNION {[1..n -> GradedShips] : n \in 0..MaxGradedShips}
    /\ Len(friend_fleet) + Len(enemy_fleet) <= MaxGradedShips
    /\ friend_hp \in [DOMAIN friend_fleet -> 0..3]
    /\ enemy_hp \in [DOMAIN enemy_fleet -> 0..3]
    /\ \A i \in DOMAIN friend_fleet : friend_hp[i] <= friend_fleet[i].hp
    /\ \A i \in DOMAIN enemy_fleet : enemy_hp[i] <= enemy_fleet[i].hp
    /\ pc = "done"
    /\ fire_order = <<>>
    /\ pos = 1
    /\ last = NoEvent
    /\ attacks = NoAttacks
    /\ grades = <<>>
    /\ report = NoReport
    /\ logs = NewLogs(direction)
    /\ call = NoCall
    /\ host = NoHost

GraderNext == CalculateResult \/ Report

GraderSpec == GraderInit /\ [][GraderNext]_vars

\* ------------------------------------------------------- the two scenarios
\* Battle::new on a friend fleet of one lightly armoured ship with any entry
\* HP and an enemy fleet of one Duelist, whose every hit would sink it
FlagshipInit ==
    /\ direction \in Directions
    /\ friend_fleet \in {<<Flagship(h)>> : h \in 1..MaxFlagshipHp}
    /\ enemy_fleet = <<Duelist>>
    /\ friend_hp = [i \in DOMAIN friend_fleet |-> SnapshotFrom(friend_fleet[i])]
    /\ enemy_hp = [i \in DOMAIN enemy_fleet |-> SnapshotFrom(enemy_fleet[i])]
    /\ pc = "new"
    /\ fire_order = <<>>
    /\ pos = 1
    /\ last = NoEvent
    /\ attacks = NoAttacks
    /\ grades = <<>>
    /\ report = NoReport
    /\ logs = NewLogs(direction)
    /\ call = NoCall
    /\ host = NoHost

FlagshipSpec == FlagshipInit /\ [][Next]_vars

\* Battle::new on one Duelist a side, the direction drawn being Same
DuelInit ==
    /\ direction = "Same"
    /\ friend_fleet = <<Duelist>>
    /\ enemy_fleet = <<Duelist>>
    /\ friend_hp = [i \in DOMAIN friend_fleet |-> SnapshotFrom(friend_fleet[i])]
    /\ enemy_hp = [i \in DOMAIN enemy_fleet |-> SnapshotFrom(enemy_fleet[i])]
    /\ pc = "new"
    /\ fire_order = <<>>
    /\ pos = 1
    /\ last = NoEvent
    /\ attacks = NoAttacks
    /\ grades = <<>>
    /\ report = NoReport
    /\ logs = NewLogs(direction)
    /\ call = NoCall
    /\ host = NoHost

DuelSpec == DuelInit /\ [][Next]_vars

\* a Destroyer entering the battle with 1 HP left
Crippled == [Destroyer EXCEPT !.hp = 1]

\* Battle::new on a friend fleet of Destroyers, crippled or not, against
\* Battleships and Destroyers
CrippledInit ==
    /\ direction \in Directions
    /\ friend_fleet \in UNION {[1..n -> {Crippled, Destroyer}] : n \in 1..2}
    /\ enemy_fleet \in UNION {[1..n -> {Battleship, Destroyer}] : n \in 1..2}
    /\ Len(friend_fleet) + Len(enemy_fleet) <= MaxShips
    /\ friend_hp = [i \in DOMAIN friend_fleet |-> SnapshotFrom(friend_fleet[i])]
    /\ enemy_hp = [i \in DOMAIN enemy_fleet |-> SnapshotFrom(enemy_fleet[i])]
    /\ pc = "new"
    /\ fire_order = <<>>
    /\ pos = 1
    /\ last = NoEvent
    /\ attacks = NoAttacks
    /\ grades = <<>>
    /\ report = NoReport
    /\ logs = NewLogs(direction)
    /\ call = NoCall
    /\ host = NoHost

CrippledSpec == CrippledInit /\ [][Next]_vars

\* Battle::flush_logs_debug, which a holder of the battle may call between
\* two operations: a non-empty log is written out and cleared
FlushLogsDebug ==
    /\ pc \in {"new", "phase1", "phase2", "done"}
    /\ logs # <<>>
    /\ logs' = <<>>
    /\ UNCHANGED <<direction, friend_fleet, enemy_fleet, friend_hp, enemy_hp,
                   pc, fire_order, pos, last, attacks, grades, report,
                   call, host>>

LogNext == Next \/ FlushLogsDebug

\* a battle whose holder also flushes the log
LogSpec == Init /\ [][LogNext]_vars

(***************************************************************************)
(* Stand-alone calls of single functions: no battle is running.            *)
(***************************************************************************)
NoBattle ==
    /\ direction = "Same"
    /\ friend_fleet = <<>>
    /\ enemy_fleet = <<>>
    /\ friend_hp = <<>>
    /\ enemy_hp = <<>>
    /\ pc = "none"
    /\ fire_order = <<>>
    /\ pos = 1
    /\ last = NoEvent
    /\ attacks = NoAttacks
    /\ grades = <<>>
    /\ report = NoReport
    /\ logs = <<>>

battle_vars == <<direction, friend_fleet, enemy_fleet, friend_hp, enemy_hp,
                 pc, fire_order, pos, last, attacks, grades, report, logs>>

\* distances between the two firepowers of one stand-alone call
PrecapSteps == {1, 100}

\* firepowers (hundredths) handed to fp_capping, two per call
CapInit ==
    /\ NoBattle
    /\ host = NoHost
    /\ \E p \in 0..(MaxPrecap * 100), s \in PrecapSteps :
           call = [fn |-> "fp_capping", args |-> <<p, p + s>>, ret |-> <<>>]

\* fp_capping(firepower, 220.0) applied to the next firepower
CapCall ==
    /\ call.fn = "fp_capping"
    /\ Len(call.ret) < Len(call.args)
    /\ call' = [call EXCEPT
                    !.ret = Append(@, fp_capping(call.args[Len(@) + 1], Cap))]
    /\ UNCHANGED <<battle_vars, host>>

CapSpec == CapInit /\ [][CapCall]_vars

\* fault variant: the subtraction without the comparison in front of it
battle_log_apply_damage_unchecked(hp, damage) ==
    (hp - damage) % U16

\* battle_log.rs ShipSnapshot::apply_damage:
\* if damage >= self.hp { self.hp = 0 } else { self.hp -= damage }
battle_log_apply_damage(hp, damage) ==
    IF damage >= hp THEN 0 ELSE (hp - damage) % U16

\* u16 values of a stand-alone snapshot call: small ones and the largest
SnapshotValues == 0..MaxSnapshotHp \cup {U16 - 2, U16 - 1}

\* one snapshot of each implementation at the same HP, two damages to apply
SnapshotInit ==
    /\ NoBattle
    /\ host = NoHost
    /\ \E hp \in SnapshotValues, a \in SnapshotValues, b \in SnapshotValues :
           call = [fn |-> "apply_damage", args |-> <<hp, a, b>>,
                   ret |-> << <<hp, hp>> >>]

\* apply_damage(next damage) on the snapshot of battle_legacy and on the
\* snapshot of battle_log; ret keeps the HP pair after every call
SnapshotApply ==
    /\ call.fn = "apply_damage"
    /\ Len(call.ret) < Len(call.args)
    /\ LET now == call.ret[Len(call.ret)]
           amount == call.args[Len(call.ret) + 1]
       IN  call' = [call EXCEPT !.ret = Append(@,
                       <<snapshot_apply_damage(now[1], amount),
                         battle_log_apply_damage(now[2], amount)>>)]
    /\ UNCHANGED <<battle_vars, host>>

\* apply_damage(a + b) on fresh snapshots at the same starting HP, when
\* a + b is a u16
SnapshotApplySum ==
    /\ call.fn = "apply_damage"
    /\ Len(call.ret) = Len(call.args)
    /\ call.args[2] + call.args[3] < U16
    /\ LET amount == call.args[2] + call.args[3]
       IN  call' = [call EXCEPT !.ret = Append(@,
                       <<snapshot_apply_damage(call.args[1], amount),
                         battle_log_apply_damage(call.args[1], amount)>>)]
    /\ UNCHANGED <<battle_vars, host>>

SnapshotNext == SnapshotApply \/ SnapshotApplySum

SnapshotSpec == SnapshotInit /\ [][SnapshotNext]_vars

\* fault variant of draw_direction: the thresholds compared with <=
draw_direction_inclusive(r) ==
    IF r <= 45 THEN "Same"
    ELSE IF r <= 75 THEN "Against"
    ELSE IF r <= 90 THEN "TAdvantage"
    ELSE "TDisadvantage"

\* Battle::new: the direction for the draw r = rand::random::<f64>(), r in
\* hundredths
draw_direction(r) ==
    IF r < 45 THEN "Same"
    ELSE IF r < 75 THEN "Against"
    ELSE IF r < 90 THEN "TAdvantage"
    ELSE "TDisadvantage"

\* draws of Battle::new in hundredths: the ends of the four intervals
DirectionDraws == {0, 44, 45, 74, 75, 89, 90, 99}

\* the fleets handed to Battle::new
DuelFleets == {<<Battleship>>, <<Destroyer>>}

\* Battle::new is about to be called with two fleets; r is the draw it
\* will make
SetupInit ==
    /\ direction = "Same"
    /\ friend_fleet \in DuelFleets
    /\ enemy_fleet \in DuelFleets
    /\ friend_hp = <<>>
    /\ enemy_hp = <<>>
    /\ pc = "setup"
    /\ fire_order = <<>>
    /\ pos = 1
    /\ last = NoEvent
    /\ attacks = NoAttacks
    /\ grades = <<>>
    /\ report = NoReport
    /\ logs = <<>>
    /\ \E r \in DirectionDraws :
           call = [fn |-> "Battle::new", args |-> <<r>>, ret |-> <<>>]
    /\ host = NoHost

\* Battle::new: the two log lines, the direction drawn, the snapshots
BattleNew ==
    /\ pc = "setup"
    /\ pc' = "new"
    /\ direction' = draw_direction(call.args[1])
    /\ logs' = NewLogs(direction')
    /\ friend_hp' = [i \in DOMAIN friend_fleet |-> SnapshotFrom(friend_fleet[i])]
    /\ enemy_hp' = [i \in DOMAIN enemy_fleet |-> SnapshotFrom(enemy_fleet[i])]
    /\ call' = [call EXCEPT !.ret = <<direction'>>]
    /\ UNCHANGED <<friend_fleet, enemy_fleet, fire_order, pos, last, attacks,
                   grades, report, host>>

SetupNext == BattleNew \/ Next

\* a battle from the call of Battle::new on
SetupSpec == SetupInit /\ [][SetupNext]_vars

\* a ship's max HP and its HP at two times of a battle, the later not above
\* the earlier
LevelInit ==
    /\ NoBattle
    /\ host = NoHost
    /\ \E max_hp \in 0..MaxLevelHp, earlier \in 0..MaxLevelHp :
         \E later \in 0..earlier :
           call = [fn |-> "damaged_level", args |-> <<max_hp, earlier, later>>,
                   ret |-> <<>>]

\* damaged_level() at the next of the two times
LevelCall ==
    /\ call.fn = "damaged_level"
    /\ Len(call.ret) < 2
    /\ call' = [call EXCEPT
                    !.ret = Append(@, damaged_level(call.args[1],
                                                    call.args[Len(@) + 2]))]
    /\ UNCHANGED <<battle_vars, host>>

LevelSpec == LevelInit /\ [][LevelCall]_vars

\* the target's HP and the draw floor(hp_now * r) of a glancing hit
TrivialInit ==
    /\ NoBattle
    /\ host = NoHost
    /\ \E hp_now \in 0..MaxTrivialHp :
         \E k \in Draws(hp_now) :
           call = [fn |-> "trivial_damage", args |-> <<hp_now, k>>, ret |-> <<>>]

\* the else branch of the damage block of fire_phase_helper and the cast of
\* `damage as u16`
TrivialCall ==
    /\ call.fn = "trivial_damage"
    /\ call.ret = <<>>
    /\ call' = [call EXCEPT
                    !.ret = <<as_u16(trivial_damage(call.args[1], call.args[2]))>>]
    /\ UNCHANGED <<battle_vars, host>>

\* ShipSnapshot::apply_damage of the glancing damage on the target's snapshot
TrivialApply ==
    /\ call.fn = "trivial_damage"
    /\ Len(call.ret) = 1
    /\ call' = [call EXCEPT
                    !.ret = Append(@, battle_log_apply_damage(call.args[1], @[1]))]
    /\ UNCHANGED <<battle_vars, host>>

TrivialNext == TrivialCall \/ TrivialApply

TrivialSpec == TrivialInit /\ [][TrivialNext]_vars

(***************************************************************************)
(* The host entry point of lib.rs: simulate, battle_once and the Battle    *)
(* of lib.rs (one fire phase, ordered by firepower).                       *)
(***************************************************************************)
\* lib.rs Ship: status {hp, firepower, armor}
Gunboat == [hp |-> 3, firepower |-> 4, armor |-> 1]
Hulk == [hp |-> 2, firepower |-> 1, armor |-> 3]

\* Option<T>: None is the empty sequence, Some(x) the sequence of x alone
None == <<>>
Some(x) == <<x>>

\* the friend fleets of a simulate call
HostFleets ==
    {<<>>, <<Gunboat>>, <<Hulk>>, <<Gunboat, Gunboat>>, <<Gunboat, Hulk>>,
     <<Hulk, Gunboat>>, <<Hulk, Hulk>>}

\* Option<Fleet>: None or the ships of the fleet
HostFriends == {None} \cup {Some(f) : f \in HostFleets}

\* EnemyFleet {probability (percent), ships}
EnemyFleet(p, ships) == [probability |-> p, ships |-> ships]

\* the pools of enemy fleets: empty, of one fleet and of two fleets
EnemyPools ==
    {<<>>}
    \cup {<<EnemyFleet(100, f)>> : f \in {<<>>, <<Gunboat>>, <<Hulk, Gunboat>>}}
    \cup {<<EnemyFleet(p, <<Gunboat>>), EnemyFleet(p, f)>> :
             p \in {30, 50}, f \in {<<>>, <<Hulk>>}}

\* Option<Vec<EnemyFleet>>
HostEnemies == {None} \cup {Some(pool) : pool \in EnemyPools}

\* r = rand::random::<f64>() of battle_once, in percent
Rolls == {0, 50, 75, 99}

\* no Battle of lib.rs exists; `actor` is the ship get_actor returned in the
\* latest turn (side and fleet index), empty when the turn was skipped
NoHostBattle ==
    [direction |-> "Same", enemy_index |-> 0, enemy_fleet |-> <<>>,
     friend_hp |-> <<>>, enemy_hp |-> <<>>, order |-> <<>>, pos |-> 1,
     actor |-> <<>>]

\* ShipResult::from
ShipResult_from(ship) == ship.hp

\* fault variant of select_enemy: the draw compared with <
RECURSIVE select_enemy_strict(_, _, _, _)
select_enemy_strict(enemy, r, index, cumulative_probability) ==
    IF index > Len(enemy) THEN 1
    ELSE IF r < cumulative_probability + enemy[index].probability
         THEN index
         ELSE select_enemy_strict(enemy, r, index + 1,
                                  cumulative_probability + enemy[index].probability)

\* battle_once: the loop that selects the enemy fleet; indices from 1, so
\* the default `selected_enemy_index = 0` is 1
RECURSIVE select_enemy(_, _, _, _)
select_enemy(enemy, r, index, cumulative_probability) ==
    IF index > Len(enemy) THEN 1
    ELSE IF r <= cumulative_probability + enemy[index].probability
         THEN index
         ELSE select_enemy(enemy, r, index + 1,
                           cumulative_probability + enemy[index].probability)

\* sort_by_key(Reverse(firepower)): stable insertion behind every entry whose
\* firepower is >= its own
RECURSIVE InsertByFirepower(_, _)
InsertByFirepower(x, sorted) ==
    IF sorted = <<>> THEN <<x>>
    ELSE IF Head(sorted)[3] >= x[3]
         THEN <<Head(sorted)>> \o InsertByFirepower(x, Tail(sorted))
         ELSE <<x>> \o sorted

RECURSIVE SortByFirepower(_, _, _)
SortByFirepower(keyed, k, sorted) ==
    IF k > Len(keyed) THEN sorted
    ELSE SortByFirepower(keyed, k + 1, InsertByFirepower(keyed[k], sorted))

\* lib.rs Battle::fire_order: every ship of both fleets, friend first
host_fire_order(friend, enemy) ==
    LET keyed == [i \in DOMAIN friend |-> <<TRUE, i, friend[i].firepower>>]
                 \o [i \in DOMAIN enemy |-> <<FALSE, i, enemy[i].firepower>>]
        order == SortByFirepower(keyed, 1, <<>>)
    IN  [k \in DOMAIN order |-> <<order[k][1], order[k][2]>>]

\* lib.rs Battle::get_actor: filter(is_alive).nth(index_in_fleet); 0 is None
host_get_actor(hps, index_in_fleet) ==
    LET alive == AliveIndices(hps)
    IN  IF index_in_fleet <= Len(alive) THEN alive[index_in_fleet] ELSE 0

\* lib.rs Battle::new with the start of fire_phase1 (no order when a fleet
\* is empty)
host_Battle_new(friend, enemy_index, enemy, d) ==
    [direction |-> d,
     enemy_index |-> enemy_index,
     enemy_fleet |-> enemy,
     friend_hp |-> [i \in DOMAIN friend |-> ShipResult_from(friend[i])],
     enemy_hp |-> [i \in DOMAIN enemy |-> ShipResult_from(enemy[i])],
     order |-> IF friend = <<>> \/ enemy = <<>> THEN <<>>
               ELSE host_fire_order(friend, enemy),
     pos |-> 1,
     actor |-> <<>>]

\* the arguments of simulate after from_value; r is the draw of the
\* battle_once call that is running
HostInit ==
    /\ NoBattle
    /\ call = NoCall
    /\ host \in [pc : {"called"}, friend : HostFriends, enemy : HostEnemies,
                  count : 0..MaxCount, results : {<<>>},
                  battle : {NoHostBattle}, r : {0}]

\* simulate up to its loop: missing data returns the empty results
Simulate ==
    /\ host.pc = "called"
    /\ host' = [host EXCEPT !.pc = IF host.friend = None \/ host.enemy = None
                                   THEN "returned" ELSE "loop"]
    /\ UNCHANGED <<battle_vars, call>>

\* battle_once up to the loop of fire_phase1
BattleOnce ==
    /\ host.pc = "loop"
    /\ Len(host.results) < host.count
    /\ \E r \in Rolls, d \in Directions :
          LET friend == host.friend[1]
              enemy == host.enemy[1]
              selected_enemy_index == select_enemy(enemy, r, 1, 0)
          IN  IF selected_enemy_index \notin DOMAIN enemy
              THEN host' = [host EXCEPT !.pc = "panic"]
              ELSE host' = [host EXCEPT
                      !.pc = "fire",
                      !.r = r,
                      !.battle = host_Battle_new(friend, selected_enemy_index,
                                     enemy[selected_enemy_index].ships, d)]
    /\ UNCHANGED <<battle_vars, call>>

\* one iteration of the for loop of fire_phase1
FirePhase1Turn ==
    /\ host.pc = "fire"
    /\ host.battle.pos <= Len(host.battle.order)
    /\ LET b == host.battle
           friend == host.friend[1]
           enemy == b.enemy_fleet
           actor_is_friend == b.order[b.pos][1]
           actor_idx == host_get_actor(IF actor_is_friend THEN b.friend_hp
                                       ELSE b.enemy_hp, b.order[b.pos][2])
           targets == choose_random_alive(IF actor_is_friend THEN b.enemy_hp
                                          ELSE b.friend_hp)
       IN  IF actor_idx = 0 \/ targets = {}
           THEN host' = [host EXCEPT !.battle.pos = @ + 1,
                                     !.battle.actor = <<>>]
           ELSE \E t \in targets :
                  LET actor == IF actor_is_friend THEN friend[actor_idx]
                               ELSE enemy[actor_idx]
                      target == IF actor_is_friend THEN enemy[t]
                                ELSE friend[t]
                      hp_now == IF actor_is_friend THEN b.enemy_hp[t]
                                ELSE b.friend_hp[t]
                      firepower ==
                          fp_postcap_correction(fp_capping(
                              actor.firepower * direction_fp_factor(b.direction)
                                  * 10, Cap))
                  IN  \E ka \in Draws(target.armor), kt \in Draws(hp_now) :
                        LET raw == raw_damage(firepower,
                                       calculate_armor(target.armor, ka))
                            damage == IF raw > 0 THEN as_u16(raw)
                                      ELSE trivial_damage(hp_now, kt)
                            hp == snapshot_apply_damage(hp_now, damage)
                        IN  host' = [host EXCEPT
                                !.battle.pos = @ + 1,
                                !.battle.actor = <<actor_is_friend, actor_idx>>,
                                !.battle.friend_hp =
                                    IF actor_is_friend THEN @
                                    ELSE [@ EXCEPT ![t] = hp],
                                !.battle.enemy_hp =
                                    IF actor_is_friend THEN [@ EXCEPT ![t] = hp]
                                    ELSE @]
    /\ UNCHANGED <<battle_vars, call>>

\* fault variant of ToResult: the battle fought on the caller's fleet, whose
\* ships keep the HP the battle left
ToResult_on_callers_fleet ==
    /\ host.pc = "fire"
    /\ host.battle.pos > Len(host.battle.order)
    /\ host' = [host EXCEPT
            !.pc = "loop",
            !.friend = Some([i \in DOMAIN @[1] |->
                           [@[1][i] EXCEPT !.hp = host.battle.friend_hp[i]]]),
            !.results = Append(@,
                [friend_fleet_results |-> host.battle.friend_hp,
                 enemy_index |-> host.battle.enemy_index,
                 enemy_fleet_results |-> host.battle.enemy_hp]),
            !.battle = NoHostBattle,
            !.r = 0]
    /\ UNCHANGED <<battle_vars, call>>

\* the end of battle_once (to_result) and results.push in simulate
ToResult ==
    /\ host.pc = "fire"
    /\ host.battle.pos > Len(host.battle.order)
    /\ host' = [host EXCEPT
            !.pc = "loop",
            !.results = Append(@,
                [friend_fleet_results |-> host.battle.friend_hp,
                 enemy_index |-> host.battle.enemy_index,
                 enemy_fleet_results |-> host.battle.enemy_hp]),
            !.battle = NoHostBattle,
            !.r = 0]
    /\ UNCHANGED <<battle_vars, call>>

\* the loop of simulate is over: to_value(&results)
SimulateReturn ==
    /\ host.pc = "loop"
    /\ Len(host.results) >= host.count
    /\ host' = [host EXCEPT !.pc = "returned"]
    /\ UNCHANGED <<battle_vars, call>>

HostNext ==
    Simulate \/ BattleOnce \/ FirePhase1Turn \/ ToResult \/ SimulateReturn

HostSpec == HostInit /\ [][HostNext]_vars


\* ===================================================================== claims
\* vocabulary of the properties
FleetOf(is_friend) == IF is_friend THEN friend_fleet ELSE enemy_fleet
HpOf(is_friend) == IF is_friend THEN friend_hp ELSE enemy_hp
AllShips == {<<b, i>> : b \in BOOLEAN, i \in 1..MaxShips + 1}
ShipsPresent == {e \in AllShips : e[2] \in DOMAIN FleetOf(e[1])}
AliveNow == {e \in ShipsPresent : HpOf(e[1])[e[2]] > 0}
BestRange(is_friend) ==
    LET rs == {FleetOf(is_friend)[e[2]].range : e \in {a \in AliveNow : a[1] = is_friend}}
    IN  CHOOSE r \in rs : \A q \in rs : q <= r
IndexOrderNow == ordered_by_index(friend_hp, enemy_hp)
Occurrences(o, e) == Cardinality({k \in DOMAIN o : o[k] = e})
HasBattleshipClass ==
    \E e \in ShipsPresent : FleetOf(e[1])[e[2]].ship_type_id \in {8, 9, 10, 12}

C3_AttackFrame ==
    [][ /\ friend_fleet' = friend_fleet
        /\ enemy_fleet' = enemy_fleet
        /\ DOMAIN friend_hp' = DOMAIN friend_hp
        /\ DOMAIN enemy_hp' = DOMAIN enemy_hp
        /\ \A i \in DOMAIN friend_hp : friend_hp'[i] <= friend_hp[i]
        /\ \A i \in DOMAIN enemy_hp : enemy_hp'[i] <= enemy_hp[i]
        /\ IF last'.kind = "attack"
           THEN /\ last'.target_is_friend # last'.actor_is_friend
                /\ \A i \in DOMAIN friend_hp :
                     ~(last'.target_is_friend /\ i = last'.target_index)
                        => friend_hp'[i] = friend_hp[i]
                /\ \A i \in DOMAIN enemy_hp :
                     ~(~last'.target_is_friend /\ i = last'.target_index)
                        => enemy_hp'[i] = enemy_hp[i]
           ELSE friend_hp' = friend_hp /\ enemy_hp' = enemy_hp
      ]_vars

\* an attack lowered its target's snapshot
C3_Witness ==
    /\ last.kind = "attack"
    /\ HpOf(last.target_is_friend)[last.target_index] < last.hp_now

\* C4: the first entry of ordered_by_range is a friend ship when the friend
\* side's best alive range is >= the enemy's, an enemy ship when the enemy's
\* is strictly greater (stated of the order phase 1 starts with).
C4_RangeLeader ==
    (pc = "phase1" /\ pos = 1) =>
        /\ BestRange(TRUE) >= BestRange(FALSE) => fire_order[1][1] = TRUE
        /\ BestRange(FALSE) > BestRange(TRUE) => fire_order[1][1] = FALSE

\* C5: ordered_by_range lists every alive ship of each side exactly once, under
\* its own side and fleet index, and nothing else (stated of the order phase 1
\* starts with).
C5_RangeOrderComplete ==
    (pc = "phase1" /\ pos = 1) =>
        /\ \A k \in DOMAIN fire_order : fire_order[k] \in AliveNow
        /\ \A e \in AliveNow : Occurrences(fire_order, e) = 1

C7_TargetAliveOpposite ==
    last.kind = "attack" =>
        /\ last.target_is_friend # last.actor_is_friend
        /\ last.target_index \in DOMAIN FleetOf(last.target_is_friend)
        /\ last.hp_now > 0

\* a ship hit before and still alive was selected again
C7_Witness ==
    /\ last.kind = "attack"
    /\ last.hp_now > 0
    /\ last.hp_now < FleetOf(last.target_is_friend)[last.target_index].hp

\* C8: within a phase the order never changes and is walked entry by entry; an
\* entry whose ship has HP 0 when its turn comes is skipped without any change
\* of a snapshot.
C8_OrderFixed ==
    [][ (pc \in {"phase1", "phase2"} /\ pc' = pc) =>
          /\ fire_order' = fire_order
          /\ pos' = pos + 1
          /\ last'.actor_is_friend = fire_order[pos][1]
          /\ last'.actor_index = fire_order[pos][2]
          /\ HpOf(fire_order[pos][1])[fire_order[pos][2]] = 0 =>
                /\ last'.kind = "sunk"
                /\ friend_hp' = friend_hp
                /\ enemy_hp' = enemy_hp
      ]_vars

\* the turn of a ship that entered alive and was sunk in this phase was skipped
C8_Witness ==
    /\ last.kind = "sunk"
    /\ FleetOf(last.actor_is_friend)[last.actor_index].hp > 0
    /\ pos <= Len(fire_order)

\* C9: when phase 1 ends, phase 2 starts iff a ship of either fleet is
\* battleship-class, and the battle is over otherwise; phase 2 is never
\* running without such a ship.
C9_BattleshipGate ==
    [][ /\ (pc = "phase1" /\ pos > Len(fire_order)) =>
              pc' = IF HasBattleshipClass THEN "phase2" ELSE "done"
        /\ pc' = "phase2" => HasBattleshipClass
        /\ (pc = "phase2" /\ pos > Len(fire_order)) => pc' = "done"
      ]_vars

\* an attack of phase 2
C9_Witness == pc = "phase2" /\ last.kind = "attack"

\* C10: a battle with an empty fleet runs to completion without a fault and
\* with every snapshot at its entry HP.
C10_EmptyFleetNoFault ==
    (friend_fleet = <<>> \/ enemy_fleet = <<>>) =>
        /\ pc # "panic"
        /\ \A b \in BOOLEAN : \A i \in DOMAIN HpOf(b) :
             HpOf(b)[i] = FleetOf(b)[i].hp

\* C11: no step of a battle reaches a fatal condition.  Stated of the battles
\* in which each side brings a ship with HP > 0 (a side without one faults
\* when the range order is built, the fault C10 shows for the empty fleet):
\* no ship index is used out of the bounds of its fleet.
C11_NoFatalCondition ==
    (/\ \E i \in DOMAIN friend_fleet : friend_fleet[i].hp > 0
     /\ \E i \in DOMAIN enemy_fleet : enemy_fleet[i].hp > 0)
        => pc # "panic"

\* a side that brought a ship with HP > 0 and has none left
SideExhausted(is_friend) ==
    /\ \E i \in DOMAIN FleetOf(is_friend) : FleetOf(is_friend)[i].hp > 0
    /\ \A i \in DOMAIN HpOf(is_friend) : HpOf(is_friend)[i] = 0

\* the ship of entry e of an order exists, is alive and is not a carrier too
\* damaged to launch
AbleToAct(e) ==
    /\ e \in AliveNow
    /\ ~(/\ FleetOf(e[1])[e[2]].attack_aircraft
          /\ 4 * HpOf(e[1])[e[2]] <= 2 * FleetOf(e[1])[e[2]].max_hp)

\* C12: once every ship of one side is sunk, no later step of the phases
\* changes a snapshot or faults, and the turn of every actor of the other side
\* that is able to act is skipped for want of a target.
C12_ExhaustedSideSkipped ==
    [][ \A b \in BOOLEAN :
          (pc \in {"phase1", "phase2"} /\ SideExhausted(b)) =>
              /\ pc' # "panic"
              /\ friend_hp' = friend_hp
              /\ enemy_hp' = enemy_hp
              /\ (/\ pos <= Len(fire_order)
                  /\ fire_order[pos][1] = ~b
                  /\ AbleToAct(fire_order[pos])) => last'.kind = "no_target"
      ]_vars

\* how far the battle has come
PhaseRank ==
    CASE pc = "new" -> 0
      [] pc = "phase1" -> 1
      [] pc = "phase2" -> 2
      [] pc \in {"done", "panic"} -> 3
      [] pc = "reported" -> 4

NoRepeat(s) == \A k, l \in DOMAIN s : k # l => s[k] # s[l]

\* an order is no longer than the two fleets, the walk stays within it, no
\* ship has attacked twice in a phase, nor at all in phase 2 when no ship is
\* battleship-class
AttacksBounded ==
    /\ Len(fire_order) <= Len(friend_fleet) + Len(enemy_fleet)
    /\ pos <= Len(fire_order) + 1
    /\ NoRepeat(attacks[1])
    /\ NoRepeat(attacks[2])
    /\ ~HasBattleshipClass => attacks[2] = <<>>

\* C13: every battle terminates (an order is no longer than the two fleets,
\* and every step of the phases either moves on to a later phase or to the
\* next entry of the order), and no ship attacks twice in a phase, nor at all
\* in phase 2 when no ship is battleship-class.
C13_BoundedBattle ==
    [][ /\ AttacksBounded
        /\ AttacksBounded'
        /\ pc \in {"new", "phase1", "phase2"} =>
              \/ PhaseRank' > PhaseRank
              \/ PhaseRank' = PhaseRank /\ pos' = pos + 1
      ]_vars

\* a finished battle in which one ship attacked in phase 1 and again in phase 2
C13_Witness ==
    /\ pc = "done"
    /\ \E k \in DOMAIN attacks[1] : \E l \in DOMAIN attacks[2] :
          attacks[1][k] = attacks[2][l]

FlagshipHit ==
    /\ last.kind = "attack"
    /\ last.target_is_friend
    /\ last.target_index = FlagshipIndex
    /\ last.damage >= last.hp_now

\* C15 as stated: after such an attack on a flagship of hp HP, its HP is > 0
\* and <= floor(hp * 0.8).
C15_FlagshipBound ==
    FlagshipHit =>
        /\ friend_hp[FlagshipIndex] > 0
        /\ friend_hp[FlagshipIndex] <= (8 * last.hp_now) \div 10

\* C15 amended: after such an attack the flagship's HP is > 0; it is
\* <= floor(hp * 0.8) for every hp >= 2, and stays 1 for hp = 1.
C15_FlagshipBoundFromTwo ==
    FlagshipHit =>
        /\ friend_hp[FlagshipIndex] > 0
        /\ last.hp_now >= 2 =>
              friend_hp[FlagshipIndex] <= (8 * last.hp_now) \div 10
        /\ last.hp_now = 1 => friend_hp[FlagshipIndex] = 1

\* a flagship of 5 or more HP left at exactly floor(hp * 0.8) - 1
C15_Witness ==
    /\ FlagshipHit
    /\ last.hp_now >= 5
    /\ friend_hp[FlagshipIndex] = (8 * last.hp_now) \div 10 - 1

\* C16: an attack on an enemy ship applies the computed damage as it is,
\* whatever the target's fleet index: the ship is left with hp_now - damage,
\* and with exactly 0 when the damage is >= hp_now.
C16_EnemyUnprotected ==
    (last.kind = "attack" /\ ~last.target_is_friend) =>
        enemy_hp[last.target_index] =
            IF last.damage >= last.hp_now THEN 0
            ELSE last.hp_now - last.damage

\* the enemy flagship sunk by a hit of at least its HP
C16_Witness ==
    /\ last.kind = "attack"
    /\ ~last.target_is_friend
    /\ last.target_index = FlagshipIndex
    /\ last.damage >= last.hp_now
    /\ enemy_hp[FlagshipIndex] = 0

\* the grader's vocabulary (spec 4.5)
SunkOf(is_friend) ==
    Cardinality({i \in DOMAIN HpOf(is_friend) : HpOf(is_friend)[i] = 0})
FlagshipSunk(is_friend) ==
    FlagshipIndex \in DOMAIN HpOf(is_friend) /\ HpOf(is_friend)[FlagshipIndex] = 0
DamageTo(is_friend) ==
    Sum([i \in DOMAIN HpOf(is_friend) |->
            FleetOf(is_friend)[i].hp - HpOf(is_friend)[i]])
InitialHpOf(is_friend) ==
    Sum([i \in DOMAIN FleetOf(is_friend) |-> FleetOf(is_friend)[i].hp])
\* ratio >= n / d for gauge(friend) = 100 * DamageTo(enemy) / InitialHpOf(enemy),
\* gauge(enemy) = 100 * DamageTo(friend) / InitialHpOf(friend) and
\* ratio = gauge(friend) / (gauge(enemy) + 1e-10): gauge(friend) exceeds n/d
\* times gauge(enemy); no ratio is >= anything when a gauge is 0/0
RatioAtLeast(n, d) ==
    /\ InitialHpOf(TRUE) > 0
    /\ InitialHpOf(FALSE) > 0
    /\ d * DamageTo(FALSE) * InitialHpOf(TRUE)
         > n * DamageTo(TRUE) * InitialHpOf(FALSE)
FriendGaugeAtLeast50 ==
    InitialHpOf(FALSE) > 0 /\ 100 * DamageTo(FALSE) >= 50 * InitialHpOf(FALSE)
ExpectedGrade ==
    IF SunkOf(TRUE) > 0
    THEN IF \/ RatioAtLeast(5, 2)
            \/ FlagshipSunk(FALSE) /\ SunkOf(FALSE) > SunkOf(TRUE)
         THEN "B"
         ELSE IF FlagshipSunk(FALSE) \/ RatioAtLeast(1, 1) THEN "C"
         ELSE IF 2 * SunkOf(TRUE) >= Len(friend_hp) THEN "E"
         ELSE "D"
    ELSE IF SunkOf(FALSE) = Len(enemy_hp)
    THEN IF DamageTo(TRUE) = 0 THEN "SS" ELSE "S"
    ELSE IF 3 * SunkOf(FALSE) >= 2 * Len(enemy_hp) THEN "A"
    ELSE IF FlagshipSunk(FALSE) \/ RatioAtLeast(5, 2) THEN "B"
    ELSE IF RatioAtLeast(1, 1) \/ FriendGaugeAtLeast50 THEN "C"
    ELSE "D"

\* C17: every grade calculate_result returns, and the grade of the report, is
\* the first match of the decision tree of spec 4.5 on the snapshots and the
\* entry HPs of the two fleets.
C17_GradeIsFirstMatch ==
    /\ \A k \in DOMAIN grades : grades[k] = ExpectedGrade
    /\ pc = "reported" => report.result = ExpectedGrade

\* rank A given with exactly two thirds of the enemy ships sunk, the enemy
\* flagship afloat, and the friend side hit
C17_Witness ==
    /\ grades # <<>>
    /\ grades[1] = "A"
    /\ 3 * SunkOf(FALSE) = 2 * Len(enemy_hp)
    /\ ~FlagshipSunk(FALSE)
    /\ DamageTo(TRUE) > 0

\* C18: grading changes no state and is repeatable: a call of
\* calculate_result leaves the direction, the fleets and every snapshot as
\* they were, and all gradings of the same final state give the same grade,
\* the report's included.
C18_GradingPure ==
    [][ /\ (grades' # grades \/ report' # report) =>
              /\ direction' = direction
              /\ friend_fleet' = friend_fleet
              /\ enemy_fleet' = enemy_fleet
              /\ friend_hp' = friend_hp
              /\ enemy_hp' = enemy_hp
        /\ \A k, l \in DOMAIN grades' : grades'[k] = grades'[l]
        /\ (pc' = "reported" /\ grades' # <<>>) => report'.result = grades'[1]
      ]_vars

\* a final state with an enemy ship sunk, graded twice and then reported
C18_Witness ==
    /\ pc = "reported"
    /\ Len(grades) >= 2
    /\ report.result = grades[2]
    /\ SunkOf(FALSE) > 0
    /\ DamageTo(TRUE) > 0

\* C19: the report of a battle holds, for each side, one final HP per ship of
\* the input fleet, entry i being the snapshot of ship i after the last phase,
\* and its grade is one of the seven and is the grade of those snapshots.
C19_ReportOfFinalSnapshots ==
    pc = "reported" =>
        /\ \A b \in BOOLEAN :
             LET results == IF b THEN report.friend_fleet_results
                            ELSE report.enemy_fleet_results
             IN  /\ Len(results) = Len(FleetOf(b))
                 /\ \A i \in DOMAIN FleetOf(b) : results[i] = HpOf(b)[i]
        /\ report.result \in Grades
        /\ report.result = ExpectedGrade

\* the report of a battle of two phases between fleets of different lengths
\* in which a ship was hit
C19_Witness ==
    /\ pc = "reported"
    /\ attacks[2] # <<>>
    /\ Len(report.friend_fleet_results) # Len(report.enemy_fleet_results)
    /\ DamageTo(TRUE) + DamageTo(FALSE) > 0

\* C20: in the duel of two ships of HP 100/100, firepower 100 and armor 50
\* under direction Same, when the phases are over each side has attacked
\* exactly once, the enemy's HP is in 30..60, and the friend's HP is in 62..91
\* when the enemy's is <= 50 and in 30..60 otherwise.
C20_DuelBounds ==
    pc \in {"done", "reported"} =>
        /\ Cardinality({k \in DOMAIN attacks[1] : attacks[1][k][1]}) = 1
        /\ Cardinality({k \in DOMAIN attacks[1] : ~attacks[1][k][1]}) = 1
        /\ attacks[2] = <<>>
        /\ enemy_hp[1] \in 30..60
        /\ IF enemy_hp[1] <= 50
           THEN friend_hp[1] \in 62..91
           ELSE friend_hp[1] \in 30..60

\* the duel over with the enemy at 50 and the friend at 62
C20_Witness ==
    /\ pc = "done"
    /\ friend_fleet = <<Duelist>>
    /\ enemy_fleet = <<Duelist>>
    /\ enemy_hp[1] = 50
    /\ friend_hp[1] = 62

\* C21: capping at 220 returns the firepower unchanged up to 220 and
\* 220 + floor(sqrt(firepower - 220)) above it (k is that floor when
\* k*k <= firepower - 220 < (k+1)*(k+1)); 200 gives 200 and 230 gives 223;
\* the larger of two firepowers never gets the smaller result.
C21_CappingClosedForm ==
    call.fn = "fp_capping" =>
        /\ \A i \in 1..Len(call.ret) :
               LET pre == call.args[i]
                   capped == call.ret[i]
                   over == pre - Cap * 100
               IN  /\ pre <= Cap * 100 => capped = pre
                   /\ pre > Cap * 100 =>
                          \E k \in 0..MaxPrecap :
                              /\ capped = (Cap + k) * 100
                              /\ 100 * k * k <= over
                              /\ over < 100 * (k + 1) * (k + 1)
                   /\ pre = 20000 => capped = 20000
                   /\ pre = 23000 => capped = 22300
        /\ Len(call.ret) = 2 /\ call.args[1] <= call.args[2]
              => call.ret[1] <= call.ret[2]

\* 230 was capped to 223 and the next firepower was capped too
C21_Witness ==
    /\ call.fn = "fp_capping"
    /\ call.args[1] = 23000
    /\ call.ret = <<22300, 22300>>

\* C22: apply_damage(d) leaves max(hp - d, 0) for every u16 hp and d and
\* never wraps; applying a and then b leaves what one application of a + b
\* leaves when a + b is a u16; the comparison-based implementation and the
\* saturating_sub implementation leave the same HP.
C22_ApplyDamageSaturates ==
    call.fn = "apply_damage" =>
        /\ \A k \in 2..Len(call.ret) :
               LET before == IF k = 4 THEN call.args[1] ELSE call.ret[k - 1][1]
                   amount == IF k = 4 THEN call.args[2] + call.args[3]
                                      ELSE call.args[k]
               IN  /\ call.ret[k][1] = Max(before - amount, 0)
                   /\ call.ret[k][2] = call.ret[k][1]
                   /\ call.ret[k][1] \in 0..before
        /\ Len(call.ret) = 4 => call.ret[4] = call.ret[3]

\* the test of interface.rs (12, then 5 leaves 7, then 10 leaves 0), with the
\* single application of 15 made as well
C22_Witness ==
    /\ call.fn = "apply_damage"
    /\ call.args = <<12, 5, 10>>
    /\ call.ret = << <<12, 12>>, <<7, 7>>, <<0, 0>>, <<0, 0>> >>

\* the snapshot lists are as long as the fleets, and no snapshot is above
\* the entry HP of the ship at its index
SnapshotsAligned ==
    \A b \in BOOLEAN :
        /\ DOMAIN HpOf(b) = DOMAIN FleetOf(b)
        /\ \A i \in DOMAIN FleetOf(b) : HpOf(b)[i] \in 0..FleetOf(b)[i].hp

\* C23: on each side there are as many snapshots as ships from the
\* construction of the battle to its report, and snapshot i stays the
\* snapshot of ship i: no step changes a fleet, adds, removes or moves a
\* snapshot; the only snapshot a step changes is the one at the index of the
\* ship that was attacked, and the report lists the snapshots index by index.
C23_SnapshotsFollowShips ==
    [][/\ SnapshotsAligned
       /\ SnapshotsAligned'
       /\ friend_fleet' = friend_fleet
       /\ enemy_fleet' = enemy_fleet
       /\ \A i \in DOMAIN friend_hp :
              friend_hp'[i] # friend_hp[i] =>
                  /\ last'.kind = "attack"
                  /\ last'.target_is_friend
                  /\ last'.target_index = i
       /\ \A i \in DOMAIN enemy_hp :
              enemy_hp'[i] # enemy_hp[i] =>
                  /\ last'.kind = "attack"
                  /\ ~last'.target_is_friend
                  /\ last'.target_index = i
       /\ pc' = "reported" =>
              /\ DOMAIN report'.friend_fleet_results = DOMAIN friend_fleet
              /\ DOMAIN report'.enemy_fleet_results = DOMAIN enemy_fleet]_vars

\* a report of fleets of different lengths in which the second ship of a
\* fleet was sunk and the first was not
C23_Witness ==
    /\ pc = "reported"
    /\ Len(friend_fleet) # Len(enemy_fleet)
    /\ \E b \in BOOLEAN :
           /\ Len(HpOf(b)) >= 2
           /\ HpOf(b)[1] > 0
           /\ HpOf(b)[2] = 0
           /\ FleetOf(b)[2].hp > 0

\* the snapshots Battle::new of lib.rs makes of a fleet description
EntryHp(ships) == [i \in DOMAIN ships |-> ships[i].hp]

\* C24: a battle never changes the fleet descriptions it was given, and
\* each battle of one simulate call starts with every snapshot at the entry
\* HP of the input fleets, whatever the earlier battles left.
C24_BattlesIndependent ==
    [][host.pc # "off" =>
          /\ host'.friend = host.friend
          /\ host'.enemy = host.enemy
          /\ host.pc = "loop" /\ host'.pc = "fire" =>
                 /\ host'.battle.friend_hp = EntryHp(host.friend[1])
                 /\ host'.battle.enemy_hp =
                        EntryHp(host.enemy[1][host'.battle.enemy_index].ships)]_vars

\* the second battle of a call starts at the entry HP after a first battle
\* that damaged ships of both fleets
C24_Witness ==
    /\ host.pc = "fire"
    /\ Len(host.results) = 1
    /\ host.battle.pos = 1
    /\ host.battle.enemy_index = host.results[1].enemy_index
    /\ host.results[1].friend_fleet_results # EntryHp(host.friend[1])
    /\ host.results[1].enemy_fleet_results # host.battle.enemy_hp
    /\ host.battle.friend_hp = EntryHp(host.friend[1])

\* C26: simulate reports missing fleet data as an empty result set without
\* running a battle (no report and no battle when the friend fleet or the
\* enemy pool is absent), and for present data it returns exactly `count`
\* reports, one per battle; it never ends in a panic.
C26_CountReports ==
    host.pc # "off" =>
        /\ host.pc # "panic"
        /\ host.friend = None \/ host.enemy = None =>
               /\ host.results = <<>>
               /\ host.battle = NoHostBattle
               /\ host.pc \in {"called", "returned"}
        /\ host.pc = "returned" /\ host.friend # None /\ host.enemy # None =>
               Len(host.results) = host.count

\* C25: the log of a battle is append-only: every operation leaves the
\* entries appended before it in place and unchanged, so the log after a
\* step is an extension of the log before it.
C25_LogAppendOnly ==
    [][/\ Len(logs') >= Len(logs)
       /\ SubSeq(logs', 1, Len(logs)) = logs]_vars

\* the entries of one side in an order, in the order's sequence
EntriesOf(o, is_friend) == SelectSeq(o, LAMBDA e : e[1] = is_friend)

\* C27: in the output of ordered_by_range the entries of each side name
\* ships of that side in descending range, equal ranges in ascending fleet
\* index; the sides alternate one entry each from the side of the first
\* entry on until one side has no entry left, and the rest of the other side
\* follows (stated of the order phase 1 starts with).
C27_RangeOrderShape ==
    (pc = "phase1" /\ pos = 1) =>
        /\ \A b \in BOOLEAN :
             LET es == EntriesOf(fire_order, b)
             IN  /\ \A k \in DOMAIN es : es[k][2] \in DOMAIN FleetOf(b)
                 /\ \A k, l \in DOMAIN es :
                      k < l =>
                        LET rk == FleetOf(b)[es[k][2]].range
                            rl == FleetOf(b)[es[l][2]].range
                        IN  rk > rl \/ (rk = rl /\ es[k][2] < es[l][2])
        /\ LET m == Min(Len(EntriesOf(fire_order, TRUE)),
                        Len(EntriesOf(fire_order, FALSE)))
               leader == fire_order[1][1]
           IN  /\ \A k \in 1..m :
                     /\ fire_order[2 * k - 1][1] = leader
                     /\ fire_order[2 * k][1] = ~leader
               /\ \A k, l \in DOMAIN fire_order :
                     (k > 2 * m /\ l > 2 * m) => fire_order[k][1] = fire_order[l][1]

\* C28: the ship that acts for the order entry (side, i) is the ship at fleet
\* index i of that side: the turn of the entry makes ship i attack or is
\* skipped, it is skipped without a change of a snapshot when ship i has
\* HP 0, and it never makes another ship attack (stated of the fire phase of
\* lib.rs, whose get_actor is the one of battle/mod.rs).
C28_ActorIsFleetIndex ==
    [][(/\ host.pc = "fire"
        /\ host'.pc = "fire"
        /\ host'.battle.pos = host.battle.pos + 1) =>
          LET entry == host.battle.order[host.battle.pos]
              hps == IF entry[1] THEN host.battle.friend_hp
                     ELSE host.battle.enemy_hp
          IN  /\ host'.battle.actor \in {<<>>, entry}
              /\ hps[entry[2]] = 0 =>
                     /\ host'.battle.actor = <<>>
                     /\ host'.battle.friend_hp = host.battle.friend_hp
                     /\ host'.battle.enemy_hp = host.battle.enemy_hp]_vars

\* C29: an actor with attack aircraft whose HP at its turn is > 0 and at most
\* half of its max HP (damaged level Moderate or worse) makes no attack and
\* no snapshot changes in its turn; an actor without attack aircraft whose HP
\* is > 0 attacks at every damaged level (whenever the other side has a ship
\* left to attack).
C29_DeckTooDamaged ==
    [][(/\ pc \in {"phase1", "phase2"}
        /\ pc' = pc
        /\ pos <= Len(fire_order)
        /\ fire_order[pos] \in AliveNow) =>
          LET actor == FleetOf(fire_order[pos][1])[fire_order[pos][2]]
              hp == HpOf(fire_order[pos][1])[fire_order[pos][2]]
              targets == {e \in AliveNow : e[1] # fire_order[pos][1]}
          IN  /\ (actor.attack_aircraft /\ 2 * hp <= actor.max_hp) =>
                     /\ last'.kind = "deck"
                     /\ friend_hp' = friend_hp
                     /\ enemy_hp' = enemy_hp
                     /\ attacks' = attacks
              /\ (~actor.attack_aircraft /\ targets # {}) =>
                     /\ last'.kind = "attack"
                     /\ last'.actor_is_friend = fire_order[pos][1]
                     /\ last'.actor_index = fire_order[pos][2]]_vars

\* the turn of a carrier at exactly half of its max HP was skipped for its
\* flight deck while the other side had a ship to attack
C29_Witness ==
    /\ last.kind = "deck"
    /\ FleetOf(last.actor_is_friend)[last.actor_index].attack_aircraft
    /\ 2 * HpOf(last.actor_is_friend)[last.actor_index]
          = FleetOf(last.actor_is_friend)[last.actor_index].max_hp
    /\ \E e \in AliveNow : e[1] # last.actor_is_friend

\* a ship without attack aircraft attacked at damaged level Heavy
C29_HeavyAttackerWitness ==
    /\ last.kind = "attack"
    /\ ~FleetOf(last.actor_is_friend)[last.actor_index].attack_aircraft
    /\ HpOf(last.actor_is_friend)[last.actor_index] > 0
    /\ 4 * HpOf(last.actor_is_friend)[last.actor_index]
          <= FleetOf(last.actor_is_friend)[last.actor_index].max_hp

\* C30: the firepower of an attack is the actor's basic firepower
\* (firepower + 5, or floor((firepower + torpedo + bombing) * 1.5) + 55 with
\* attack aircraft) times the direction factor times the factor of the
\* damaged level the actor has at its turn (1.0, 1.0, 0.7, 0.4), in
\* hundredths; no firepower of these fleets reaches the cap.
C30_FirepowerAtTurn ==
    last.kind = "attack" =>
        LET actor == FleetOf(last.actor_is_friend)[last.actor_index]
            hp == HpOf(last.actor_is_friend)[last.actor_index]
            basic == IF actor.attack_aircraft
                     THEN (3 * (actor.firepower + actor.torpedo
                                + actor.bombing)) \div 2 + 55
                     ELSE actor.firepower + 5
            by_direction == CASE direction = "Same" -> 10
                              [] direction = "Against" -> 8
                              [] direction = "TAdvantage" -> 12
                              [] direction = "TDisadvantage" -> 6
            by_level == IF 4 * hp <= actor.max_hp THEN 4
                        ELSE IF 2 * hp <= actor.max_hp THEN 7
                        ELSE 10
        IN  /\ hp > 0
            /\ basic * by_direction * by_level <= Cap * 100
            /\ last.firepower = basic * by_direction * by_level

\* an attack by a ship that entered the battle above half of its max HP and
\* was brought to level Moderate or Heavy before its turn: its firepower is
\* below the one of its basic firepower and the direction alone
C30_Witness ==
    /\ last.kind = "attack"
    /\ LET actor == FleetOf(last.actor_is_friend)[last.actor_index]
           hp == HpOf(last.actor_is_friend)[last.actor_index]
       IN  /\ 2 * actor.hp > actor.max_hp
           /\ 2 * hp <= actor.max_hp
           /\ ~actor.attack_aircraft
           /\ last.firepower < (actor.firepower + 5) * direction_fp_factor(direction) * 10

\* C31 as stated: the glancing damage handed to apply_damage is
\* floor(hp_now * 0.06) + floor(hp_now * r') * 0.08 truncated to an integer.
C31_TrivialFlooredFirst ==
    (call.fn = "trivial_damage" /\ call.ret # <<>>) =>
        LET hp_now == call.args[1]
            k == call.args[2]
            first == CHOOSE f \in 0..hp_now : 100 * f <= 6 * hp_now
                                              /\ 6 * hp_now < 100 * (f + 1)
        IN  \E d \in 0..hp_now :
                /\ call.ret[1] = d
                /\ 100 * d <= 100 * first + 8 * k
                /\ 100 * first + 8 * k < 100 * (d + 1)

\* C31 (amended): the glancing damage handed to apply_damage is
\* hp_now * 0.06 + floor(hp_now * r') * 0.08 truncated to an integer, the
\* first term not floored on its own, for every hp_now and every draw.
C31_TrivialDamage ==
    (call.fn = "trivial_damage" /\ call.ret # <<>>) =>
        LET hp_now == call.args[1]
            k == call.args[2]
        IN  \E d \in 0..hp_now :
                /\ call.ret[1] = d
                /\ 100 * d <= 6 * hp_now + 8 * k
                /\ 6 * hp_now + 8 * k < 100 * (d + 1)

\* HP 8 and floor(8 * r') = 7: 0.48 + 0.56 = 1.04 deals 1, where the floored
\* first term would deal 0
C31_Witness ==
    /\ call.fn = "trivial_damage"
    /\ call.args = <<8, 7>>
    /\ call.ret = <<1>>

\* C32: the damaged level depends on HP and max HP only: Sunk iff HP = 0,
\* Heavy iff 0 < HP/max <= 25%, Moderate iff 25% < HP/max <= 50%, Minor iff
\* 50% < HP/max <= 75%, NoDamage iff HP/max > 75%; the level at the later,
\* lower HP is never less severe than the level at the earlier HP.
C32_DamagedLevel ==
    call.fn = "damaged_level" =>
        /\ \A i \in DOMAIN call.ret :
             LET max_hp == call.args[1]
                 hp == call.args[i + 1]
                 level == call.ret[i]
             IN  /\ level = Sunk <=> hp = 0
                 /\ level = Heavy <=> (0 < hp /\ 100 * hp <= 25 * max_hp)
                 /\ level = Moderate <=>
                        (25 * max_hp < 100 * hp /\ 100 * hp <= 50 * max_hp)
                 /\ level = Minor <=>
                        (50 * max_hp < 100 * hp /\ 100 * hp <= 75 * max_hp)
                 /\ level = NoDamage <=> (hp > 0 /\ 100 * hp > 75 * max_hp)
        /\ Len(call.ret) = 2 => call.ret[2] >= call.ret[1]

\* a ship of max HP 4 is Minor at HP 3 (exactly 75%) and Heavy at HP 1
\* (exactly 25%)
C32_Witness ==
    /\ call.fn = "damaged_level"
    /\ call.args = <<4, 3, 1>>
    /\ call.ret = <<Minor, Heavy>>

\* the direction multiplier (tenths) the draw r of Battle::new stands for
MultiplierOf(r) ==
    IF r < 45 THEN 10 ELSE IF r < 75 THEN 8 ELSE IF r < 90 THEN 12 ELSE 6

\* the direction is the one of the draw, and the latest attack used its
\* multiplier
DirectionOfDraw ==
    pc # "setup" =>
        LET r == call.args[1]
        IN  /\ direction = (IF r < 45 THEN "Same"
                            ELSE IF r < 75 THEN "Against"
                            ELSE IF r < 90 THEN "TAdvantage"
                            ELSE "TDisadvantage")
            /\ last.kind = "attack" =>
                  LET actor == FleetOf(last.actor_is_friend)[last.actor_index]
                      hp == HpOf(last.actor_is_friend)[last.actor_index]
                  IN  last.firepower =
                          basic_fp(actor) * MultiplierOf(r)
                              * level_fp_factor(damaged_level(actor.max_hp, hp))

\* C33: the direction is drawn once at battle setup (Same for r < 0.45,
\* Against for 0.45 <= r < 0.75, T-Advantage for 0.75 <= r < 0.9,
\* T-Disadvantage otherwise) and never changes afterwards: every attack of
\* both phases, by either side, uses its multiplier (1.0, 0.8, 1.2, 0.6).
C33_DirectionDrawnOnce ==
    [][/\ DirectionOfDraw
       /\ DirectionOfDraw'
       /\ pc # "setup" => direction' = direction]_vars

\* an attack of the enemy in phase 2 of a battle whose draw was 0.75, after
\* an attack of the friend side in phase 1
C33_Witness ==
    /\ call.fn = "Battle::new"
    /\ call.args = <<75>>
    /\ direction = "TAdvantage"
    /\ pc = "phase2"
    /\ last.kind = "attack"
    /\ ~last.actor_is_friend
    /\ \E k \in DOMAIN attacks[1] : attacks[1][k][1]

\* the sum of the probabilities of the first n fleets of a pool
RECURSIVE CumulativeProbability(_, _)
CumulativeProbability(pool, n) ==
    IF n = 0 THEN 0
    ELSE CumulativeProbability(pool, n - 1) + pool[n].probability

\* the battle that is running was set up against the fleet the draw selects
SelectedByDraw ==
    host.pc = "fire" =>
        LET pool == host.enemy[1]
            reached == {i \in DOMAIN pool : CumulativeProbability(pool, i) >= host.r}
            index == host.battle.enemy_index
        IN  /\ reached # {} => index \in reached /\ \A i \in reached : index <= i
            /\ reached = {} => index = 1
            /\ host.battle.enemy_fleet = pool[index].ships
            /\ DOMAIN host.battle.enemy_hp = DOMAIN pool[index].ships

\* C34: the enemy fleet of a battle is the one at the smallest index whose
\* cumulative probability is >= the draw r, the first fleet when r exceeds
\* the sum of all probabilities, and the report's enemy index is the index
\* of the fleet that was fought.
C34_EnemySelection ==
    [][/\ SelectedByDraw
       /\ SelectedByDraw'
       /\ (host.pc = "fire" /\ host'.pc = "loop") =>
             LET result == host'.results[Len(host'.results)]
             IN  /\ result.enemy_index = host.battle.enemy_index
                 /\ result.enemy_fleet_results = host.battle.enemy_hp
                 /\ DOMAIN result.enemy_fleet_results
                        = DOMAIN host.enemy[1][result.enemy_index].ships]_vars

\* reports of one call against the second fleet of a pool (draw 0.75 over
\* 0.5, 0.5) and against the first for a draw above the sum (0.99 over
\* 0.3, 0.3)
C34_Witness ==
    /\ host.pc # "off"
    /\ \E k \in DOMAIN host.results : host.results[k].enemy_index = 2
    /\ \/ /\ host.pc = "fire"
          /\ host.r = 99
          /\ host.battle.enemy_index = 1
          /\ CumulativeProbability(host.enemy[1], Len(host.enemy[1])) < 99
       \/ /\ host.pc = "fire"
          /\ host.r = 50
          /\ host.battle.enemy_index = 1
          /\ host.enemy[1][1].probability = 50

\* C35: a glancing hit never sinks a ship: for every target with HP > 0 and
\* every draw the glancing damage is strictly less than the target's HP, and
\* the snapshot it is applied to stays above 0.
C35_GlancingNeverSinks ==
    (call.fn = "trivial_damage" /\ call.args[1] > 0) =>
        /\ Len(call.ret) >= 1 => call.ret[1] < call.args[1]
        /\ Len(call.ret) = 2 =>
              /\ call.ret[2] > 0
              /\ call.ret[2] = call.args[1] - call.ret[1]

\* the largest glancing damage on the largest HP: 1.44 + 23 * 0.08 = 3.28
\* deals 3 and leaves 21
C35_Witness ==
    /\ call.fn = "trivial_damage"
    /\ call.args = <<MaxTrivialHp, MaxTrivialHp - 1>>
    /\ Len(call.ret) = 2
    /\ call.ret[1] >= 3
    /\ call.ret[2] = MaxTrivialHp - call.ret[1]

\* every friend ship entered the battle with HP > 0
FriendEnteredAlive == \A i \in DOMAIN friend_fleet : friend_fleet[i].hp > 0

HitAtOneHp(on_flagship, glancing) ==
    /\ last.kind = "attack"
    /\ last.target_is_friend
    /\ last.hp_now = 1
    /\ (last.target_index = FlagshipIndex) = on_flagship
    /\ (last.damage = 0) = glancing

C37_FlagshipWitness == HitAtOneHp(TRUE, FALSE) /\ friend_hp[FlagshipIndex] = 1
C37_GlancingWitness == HitAtOneHp(FALSE, TRUE) /\ friend_hp[last.target_index] = 1
C37_GlancingFlagshipWitness == HitAtOneHp(TRUE, TRUE) /\ friend_hp[FlagshipIndex] = 1

\* C38: in the final state of a battle every snapshot HP is at most the
\* ship's entry HP, so no 'entry HP - snapshot HP' of the grader underflows
\* its 16-bit subtraction, and the total damage the grader computes for a
\* side is the sum of the entry HP minus the sum of the final HP.
C38_DamageNeverUnderflows ==
    pc \in {"done", "reported"} =>
        \A side \in BOOLEAN :
            /\ \A i \in DOMAIN HpOf(side) :
                   /\ HpOf(side)[i] <= FleetOf(side)[i].hp
                   /\ u16_sub(FleetOf(side)[i].hp, HpOf(side)[i])
                        = FleetOf(side)[i].hp - HpOf(side)[i]
            /\ TotalDamage(FleetOf(side), HpOf(side))
                 = TotalInitialHp(FleetOf(side)) - Sum(HpOf(side))

\* a graded battle in which both sides lost HP and a damaged Battleship,
\* whose entry HP is below its full HP, took part
C38_Witness ==
    /\ pc = "reported"
    /\ Len(grades) > 0
    /\ TotalDamage(friend_fleet, friend_hp) > 0
    /\ TotalDamage(enemy_fleet, enemy_hp) > 0
    /\ \E i \in DOMAIN friend_fleet : friend_fleet[i] = Battleship

\* both fleets are non-empty, every ship entered with HP > 0 and no ship
\* of either side has lost any HP
NoDamageDealt ==
    /\ friend_fleet # <<>>
    /\ enemy_fleet # <<>>
    /\ \A side \in BOOLEAN : \A i \in DOMAIN FleetOf(side) :
           FleetOf(side)[i].hp > 0 /\ HpOf(side)[i] = FleetOf(side)[i].hp

\* C39: a battle with both fleets non-empty, every ship entering with
\* HP > 0 and no damage dealt to either side is graded D.
C39_NoDamageGradedD ==
    NoDamageDealt =>
        /\ \A k \in DOMAIN grades : grades[k] = "D"
        /\ pc = "reported" => report.result = "D"

\* the report of such a battle in which ships fired in both fire phases
C39_Witness ==
    /\ NoDamageDealt
    /\ pc = "reported"
    /\ Len(grades) > 0
    /\ attacks[1] # <<>>
    /\ attacks[2] # <<>>
    /\ report.result = "D"

=============================================================================
